---- MODULE Spec2Model ----
(***************************************************************************)
(* Model of the pipeline controller of backend/orchestrator.py:            *)
(* Orchestrator.generate_code and the stage functions it drives.  The four *)
(* collaborators (generation service, syntax validator, reference          *)
(* verifier, review service) are black boxes: every call may return any    *)
(* result of its result set or raise.                                      *)
(***************************************************************************)
EXTENDS Integers, Sequences, FiniteSets, TLC

VARIABLES
    enable_code_review, \* Orchestrator.enable_code_review
    states,             \* Orchestrator.states: request_id -> RequestState
    pc,                 \* position of generate_code: next collaborator call
    caller,             \* which function invoked _run_code_generation
    attempt,            \* the loop variable `attempt` of each stage function
    response,           \* the value generate_code returned
    calls,              \* history: the collaborator calls made, in order
    last_request,       \* history: request_data of the latest generate call
    reinvoked,          \* history: latest rejection that re-invoked generation
    exhausted,          \* history: stage function whose loop used all its passes
    failures,           \* history: number of collaborator calls not answered by an acceptance
    codes_seen,         \* history: number of distinct code texts generated so far
    looked,             \* history: the get_state calls made and what they returned
    applied             \* history: the latest direct call of a pure function

vars == <<enable_code_review, states, pc, caller, attempt, response, calls,
          last_request, reinvoked, exhausted, failures, codes_seen, looked,
          applied>>

----------------------------------------------------------------------------
(* Configuration constants of class Orchestrator *)
MAX_GENERATION_RETRIES == 3
MAX_SYNTAX_RETRIES == 3
MAX_HALLUCINATION_RETRIES == 3
MAX_TOTAL_RETRIES == 5          \* declared; no statement of the class reads it

(* Bounds of the model *)
MaxCodes == 2          \* distinct code texts the generation service returns
MaxFailures == 5       \* collaborator calls per request that fail, reject or raise
MaxLiveFailures == 3   \* the same, in the runs checked for termination
MaxRequests == 2       \* generate_code calls on one orchestrator
MaxLookups == 2        \* get_state calls on one orchestrator
MaxStoreFailures == 1  \* failing, rejecting or raising calls over all the requests
MaxIssues == 2         \* entries of the list a feedback formatter is given
MaxImports == 3        \* import entries of a code text given to the verifier
MaxEdits == 2          \* corrections that can be applied to a text one after the other

----------------------------------------------------------------------------
(* Values *)
None == 0                       \* Python None for a code text
Codes == 1..MaxCodes            \* code texts the generation service may return
CorrectedCode == MaxCodes + 1   \* the validator's auto-corrected variant
RequestId == 1                  \* the uuid4 of the first request
RequestIds == 1..MaxRequests    \* the ids a caller may look up
UserRequest == "add two numbers"
NoResult == [status |-> "None"] \* Python None for a collaborator result
NoResponse == [status |-> "none"]
NoReinvoke == [stage |-> "none", brief |-> "", candidate |-> None]
NoRequest == [data |-> [action |-> "none"], attempt |-> 0, caller |-> "none",
              reinvoked |-> NoReinvoke]
Exceptions == {"boom"}          \* str(e) of a raised fault
NotApplied == [fn |-> "none", arg |-> NoResult, ret |-> ""]

(* What the collaborators may answer *)
(* Code texts are only ever compared for equality, so the texts are named  *)
(* in order of first appearance: a generated text is one seen before or    *)
(* the next unseen one.                                                    *)
GenResults(seen) ==
    {[status |-> "success", code |-> k] : k \in {j \in Codes : j <= seen + 1}}
        \cup {[status |-> "error", error |-> "bad output"]}

SyntaxErrorList == <<[line |-> 1, issue |-> "invalid syntax", fix |-> "Add ':' at the end"]>>

SyntaxResults ==
    {[status |-> "SYNTAX_VALID"]}
        \cup {[status |-> "SYNTAX_ERROR", errors |-> SyntaxErrorList, corrected_code |-> k] :
                 k \in {None, CorrectedCode}}
        \cup {[status |-> "PARSE_FAILED", errors |-> <<>>]}

HallucinationList == <<[type |-> "Library", referenced |-> "fakelib",
                        issue |-> "Module not found", suggestion |-> "Remove it"]>>

HallucinationResults ==
    {[status |-> "VERIFIED"],
     [status |-> "HALLUCINATION_DETECTED", hallucinations |-> HallucinationList],
     [status |-> "VERIFICATION_FAILED", hallucinations |-> <<>>]}

ReviewResults ==
    {[status |-> "success", score |-> 8, summary |-> "ok"],
     [status |-> "error", error |-> "review failed"]}

----------------------------------------------------------------------------
(* Stage(Enum): the value of each member *)
StageValue(stage) ==
    CASE stage = "INITIALIZED" -> "initialized"
      [] stage = "CODE_GENERATION" -> "code_generation"
      [] stage = "SYNTAX_CHECK" -> "syntax_check"
      [] stage = "HALLUCINATION_CHECK" -> "hallucination_check"
      [] stage = "CODE_REVIEW" -> "code_review"
      [] stage = "COMPLETED" -> "completed"
      [] stage = "FAILED" -> "failed"

(* Status(Enum): the value of each member *)
StatusValue(status) ==
    CASE status = "IN_PROGRESS" -> "in_progress"
      [] status = "COMPLETED" -> "completed"
      [] status = "FAILED" -> "failed"

(* RequestState.to_dict: the fields, with the two enums replaced by their   *)
(* values                                                                   *)
ToDict(st) ==
    [st EXCEPT !.current_stage = StageValue(st.current_stage),
               !.status = StatusValue(st.status)]

(* Orchestrator.get_state *)
NotFound == [request_id |-> 0]
GetState(request_id) ==
    IF request_id \in DOMAIN states THEN ToDict(states[request_id]) ELSE NotFound

(* Mutant of the request_id factory: every request gets the same id        *)
NewRequestId_Shared == RequestId

(* default_factory of request_id, str(uuid.uuid4()): an id no stored        *)
(* request has; ids are named in order of creation                          *)
NewRequestId == Cardinality(DOMAIN states) + 1

(* The request the running (or latest) generate_code call works on: its     *)
(* local variable `state`                                                   *)
CurrentId == Cardinality(DOMAIN states)

(* Mutant of the request_id factory inside RequestState: the id of the     *)
(* first request is given to every request                                  *)
NewRequestState_ReusedId(req) ==
    [request_id |-> RequestId,
     user_request |-> req,
     current_stage |-> "INITIALIZED",
     status |-> "IN_PROGRESS",
     attempts |-> [generation |-> 0, syntax_fix |-> 0, hallucination_fix |-> 0],
     artifacts |-> [generated_code |-> None, syntax_result |-> NoResult,
                    hallucination_result |-> NoResult, review_result |-> NoResult],
     error_messages |-> <<>>,
     created_at |-> Cardinality(DOMAIN states)]

(* RequestState(user_request=...); created_at, datetime.now() at creation,  *)
(* is named by the number of requests created before                       *)
NewRequestState(req) ==
    [request_id |-> NewRequestId,
     user_request |-> req,
     current_stage |-> "INITIALIZED",
     status |-> "IN_PROGRESS",
     attempts |-> [generation |-> 0, syntax_fix |-> 0, hallucination_fix |-> 0],
     artifacts |-> [generated_code |-> None, syntax_result |-> NoResult,
                    hallucination_result |-> NoResult, review_result |-> NoResult],
     error_messages |-> <<>>,
     created_at |-> Cardinality(DOMAIN states)]

(* The configuration the stage functions transform: the RequestState of    *)
(* the running request, the control position and the history variables.    *)
Config(st) ==
    [state |-> st, enable_code_review |-> enable_code_review,
     pc |-> pc, caller |-> caller, attempt |-> attempt,
     response |-> response, calls |-> calls, last_request |-> last_request,
     reinvoked |-> reinvoked, exhausted |-> exhausted, failures |-> failures,
     codes_seen |-> codes_seen]

Cur == Config(states[CurrentId])

Become(c) ==
    /\ states' = (c.state.request_id :> c.state) @@ states
    /\ pc' = c.pc
    /\ caller' = c.caller
    /\ attempt' = c.attempt
    /\ response' = c.response
    /\ calls' = c.calls
    /\ last_request' = c.last_request
    /\ reinvoked' = c.reinvoked
    /\ exhausted' = c.exhausted
    /\ failures' = c.failures
    /\ codes_seen' = c.codes_seen
    /\ UNCHANGED <<enable_code_review, looked, applied>>

Sum3(a) == a.generation + a.syntax_fix + a.hallucination_fix

(* _compile_success_response *)
CompileSuccessResponse(st) ==
    [request_id |-> st.request_id,
     status |-> "success",
     code |-> st.artifacts.generated_code,
     has_review |-> st.artifacts.review_result # NoResult,
     metadata |-> [total_attempts |-> Sum3(st.attempts),
                   generation_attempts |-> st.attempts.generation,
                   syntax_fix_attempts |-> st.attempts.syntax_fix,
                   hallucination_fix_attempts |-> st.attempts.hallucination_fix]]

(* Mutant of _compile_failure_response: the failure payload carries the     *)
(* collaborators' failure status "error" instead of "failed"                *)
CompileFailureResponse_ErrorStatus(st) ==
    [request_id |-> st.request_id,
     status |-> "error",
     error |-> "Failed to generate valid code",
     errors |-> st.error_messages,
     last_attempt |-> st.artifacts.generated_code,
     metadata |-> [failed_at_stage |-> StageValue(st.current_stage),
                   total_attempts |-> Sum3(st.attempts),
                   generation_attempts |-> st.attempts.generation,
                   syntax_fix_attempts |-> st.attempts.syntax_fix,
                   hallucination_fix_attempts |-> st.attempts.hallucination_fix]]

(* Mutant of _compile_failure_response: the payload leaves the candidate    *)
(* out (last_attempt is always None)                                        *)
CompileFailureResponse_NoLastAttempt(st) ==
    [request_id |-> st.request_id,
     status |-> "failed",
     error |-> "Failed to generate valid code",
     errors |-> st.error_messages,
     last_attempt |-> None,
     metadata |-> [failed_at_stage |-> StageValue(st.current_stage),
                   total_attempts |-> Sum3(st.attempts),
                   generation_attempts |-> st.attempts.generation,
                   syntax_fix_attempts |-> st.attempts.syntax_fix,
                   hallucination_fix_attempts |-> st.attempts.hallucination_fix]]

(* _compile_failure_response *)
CompileFailureResponse(st) ==
    [request_id |-> st.request_id,
     status |-> "failed",
     error |-> "Failed to generate valid code",
     errors |-> st.error_messages,
     last_attempt |-> st.artifacts.generated_code,
     metadata |-> [failed_at_stage |-> StageValue(st.current_stage),
                   total_attempts |-> Sum3(st.attempts),
                   generation_attempts |-> st.attempts.generation,
                   syntax_fix_attempts |-> st.attempts.syntax_fix,
                   hallucination_fix_attempts |-> st.attempts.hallucination_fix]]

(* generate_code: `return self._compile_failure_response(state)` after a   *)
(* stage function returned False                                           *)
ReturnFailure(c) ==
    [c EXCEPT !.response = CompileFailureResponse(c.state), !.pc = "done"]

(* generate_code: mark as completed and return the success response *)
ReturnSuccess(c) ==
    LET st == [c.state EXCEPT !.status = "COMPLETED", !.current_stage = "COMPLETED"]
    IN  [c EXCEPT !.state = st, !.response = CompileSuccessResponse(st), !.pc = "done"]

----------------------------------------------------------------------------
(* dict.get(key, default) *)
Get(d, key, default) == IF key \in DOMAIN d THEN d[key] ELSE default

(* error.get('line', '?') inside the f-string: the line number in decimal,  *)
(* or the default                                                           *)
LineText(error) == IF "line" \in DOMAIN error THEN ToString(error.line) ELSE "?"

(* _format_syntax_errors: the two lines of the i-th error *)
SyntaxItem(i, error) ==
    ToString(i) \o ". Line " \o LineText(error) \o ": "
        \o Get(error, "issue", "Unknown issue") \o "\n"
        \o "   Fix: " \o Get(error, "fix", "No suggestion") \o "\n"

(* _format_syntax_errors: the for loop from its i-th iteration on; the      *)
(* errors are numbered from 1 in input order                                *)
RECURSIVE SyntaxItems(_, _)
SyntaxItems(errors, i) ==
    IF i > Len(errors) THEN ""
    ELSE SyntaxItem(i, errors[i]) \o SyntaxItems(errors, i + 1)

(* Mutant of the loop: iteration starts at the second error *)
FormatSyntaxErrors_SkipsFirst(result) ==
    LET errors == Get(result, "errors", <<>>)
    IN  "Syntax Errors Found:\n" \o SyntaxItems(errors, 2)

(* _format_syntax_errors *)
FormatSyntaxErrors(result) ==
    LET errors == Get(result, "errors", <<>>)
    IN  "Syntax Errors Found:\n" \o SyntaxItems(errors, 1)

(* _format_hallucination_errors: the three lines of the i-th entry *)
HallucinationItem(i, h) ==
    ToString(i) \o ". " \o Get(h, "type", "Unknown") \o ": "
        \o Get(h, "referenced", "Unknown") \o "\n"
        \o "   Issue: " \o Get(h, "issue", "Does not exist") \o "\n"
        \o "   Suggestion: " \o Get(h, "suggestion", "Remove or replace") \o "\n"

(* _format_hallucination_errors: the for loop from its i-th iteration on *)
RECURSIVE HallucinationItems(_, _)
HallucinationItems(hs, i) ==
    IF i > Len(hs) THEN ""
    ELSE HallucinationItem(i, hs[i]) \o HallucinationItems(hs, i + 1)

(* _format_hallucination_errors *)
FormatHallucinationErrors(result) ==
    LET hs == Get(result, "hallucinations", <<>>)
    IN  "Hallucinations Detected:\n" \o HallucinationItems(hs, 1)

----------------------------------------------------------------------------
(* History: record one collaborator call: which collaborator, what it       *)
(* answered (its status, or "raise"), current_stage and the candidate at    *)
(* the call, and the code text it returned (None when it returned none)     *)
Called(c, to, out, ret) ==
    [c EXCEPT !.calls = Append(@, [to |-> to, out |-> out,
                                   stage |-> c.state.current_stage,
                                   arg |-> c.state.artifacts.generated_code,
                                   ret |-> ret])]

(* History: record the review call with its two arguments, code and        *)
(* requirements (lines 311-314)                                             *)
CalledReview(c, out) ==
    [c EXCEPT !.calls = Append(@, [to |-> "review", out |-> out,
                                   stage |-> c.state.current_stage,
                                   arg |-> c.state.artifacts.generated_code,
                                   ret |-> None,
                                   requirements |-> c.state.user_request])]

(* _run_code_review up to the review call: set the stage *)
RunCodeReview(c) ==
    [c EXCEPT !.state.current_stage = "CODE_REVIEW", !.pc = "review"]

(* Mutant of generate_code: stage 4 runs whatever enable_code_review is     *)
AfterHallucinationDetection_AlwaysReview(c) == RunCodeReview(c)

(* generate_code after _run_hallucination_detection returned True *)
AfterHallucinationDetection(c) ==
    IF c.enable_code_review THEN RunCodeReview(c) ELSE ReturnSuccess(c)

(* Mutant of the loop bound: range(1, MAX + 2), one pass too many *)
HallucinationNextPass_ExtraPass(c) ==
    IF c.attempt.hallucination <= MAX_HALLUCINATION_RETRIES
    THEN [c EXCEPT !.attempt.hallucination = @ + 1, !.pc = "halluc"]
    ELSE ReturnFailure([c EXCEPT !.exhausted = "HALLUCINATION_CHECK"])

(* _run_hallucination_detection: next iteration of its for loop, or fall    *)
(* off the loop and return False                                            *)
HallucinationNextPass(c) ==
    IF c.attempt.hallucination < MAX_HALLUCINATION_RETRIES
    THEN [c EXCEPT !.attempt.hallucination = @ + 1, !.pc = "halluc"]
    ELSE ReturnFailure([c EXCEPT !.exhausted = "HALLUCINATION_CHECK"])

(* _run_hallucination_detection up to its first verifier call *)
RunHallucinationDetection(c) ==
    [c EXCEPT !.state.current_stage = "HALLUCINATION_CHECK",
              !.attempt.hallucination = 1, !.pc = "halluc"]

(* generate_code after _run_syntax_validation returned True *)
AfterSyntaxValidation(c) == RunHallucinationDetection(c)

(* Mutant of the for loop: a `while` loop whose pass counter is never       *)
(* advanced, so the stage never runs out of passes                          *)
SyntaxNextPass_NoAdvance(c) ==
    IF c.attempt.syntax <= MAX_SYNTAX_RETRIES
    THEN [c EXCEPT !.pc = "syntax"]
    ELSE ReturnFailure([c EXCEPT !.exhausted = "SYNTAX_CHECK"])

(* _run_syntax_validation: next iteration of its for loop, or fall off the  *)
(* loop and return False                                                    *)
SyntaxNextPass(c) ==
    IF c.attempt.syntax < MAX_SYNTAX_RETRIES
    THEN [c EXCEPT !.attempt.syntax = @ + 1, !.pc = "syntax"]
    ELSE ReturnFailure([c EXCEPT !.exhausted = "SYNTAX_CHECK"])

(* _run_syntax_validation up to its first validator call *)
RunSyntaxValidation(c) ==
    [c EXCEPT !.state.current_stage = "SYNTAX_CHECK",
              !.attempt.syntax = 1, !.pc = "syntax"]

(* Mutant of generate_code: the return value of stage 1 is not tested, so   *)
(* stage 2 runs after a failed generation stage                             *)
GenerationReturned_MainIgnoresFailure(c, ok) ==
    CASE c.caller = "main" -> RunSyntaxValidation(c)
      [] c.caller = "syntax" -> IF ok THEN SyntaxNextPass(c) ELSE ReturnFailure(c)
      [] c.caller = "halluc" -> IF ok THEN HallucinationNextPass(c) ELSE ReturnFailure(c)

(* Mutant of the callers: the syntax stage ignores a failed re-invocation   *)
(* of generation and goes on with its next pass                             *)
GenerationReturned_SyntaxIgnoresFailure(c, ok) ==
    CASE c.caller = "main" -> IF ok THEN RunSyntaxValidation(c) ELSE ReturnFailure(c)
      [] c.caller = "syntax" -> SyntaxNextPass(c)
      [] c.caller = "halluc" -> IF ok THEN HallucinationNextPass(c) ELSE ReturnFailure(c)

(* Mutant of the callers: the reference stage ignores a failed               *)
(* re-invocation of generation and goes on with its next pass               *)
GenerationReturned_HallucIgnoresFailure(c, ok) ==
    CASE c.caller = "main" -> IF ok THEN RunSyntaxValidation(c) ELSE ReturnFailure(c)
      [] c.caller = "syntax" -> IF ok THEN SyntaxNextPass(c) ELSE ReturnFailure(c)
      [] c.caller = "halluc" -> HallucinationNextPass(c)

(* The caller of _run_code_generation continues with its return value:      *)
(* generate_code (lines 134-138), _run_syntax_validation (248-249) or       *)
(* _run_hallucination_detection (292-293)                                   *)
GenerationReturned(c, ok) ==
    CASE c.caller = "main" -> IF ok THEN RunSyntaxValidation(c) ELSE ReturnFailure(c)
      [] c.caller = "syntax" -> IF ok THEN SyntaxNextPass(c) ELSE ReturnFailure(c)
      [] c.caller = "halluc" -> IF ok THEN HallucinationNextPass(c) ELSE ReturnFailure(c)

(* Mutant of the loop bound: one attempt more than MAX_GENERATION_RETRIES   *)
GenerationNextAttempt_ExtraAttempt(c) ==
    IF c.attempt.generation <= MAX_GENERATION_RETRIES
    THEN [c EXCEPT !.attempt.generation = @ + 1, !.pc = "gen"]
    ELSE GenerationReturned([c EXCEPT !.exhausted = "CODE_GENERATION"], FALSE)

(* _run_code_generation: next iteration of its for loop, or fall off the    *)
(* loop and return False                                                    *)
GenerationNextAttempt(c) ==
    IF c.attempt.generation < MAX_GENERATION_RETRIES
    THEN [c EXCEPT !.attempt.generation = @ + 1, !.pc = "gen"]
    ELSE GenerationReturned([c EXCEPT !.exhausted = "CODE_GENERATION"], FALSE)

(* Mutant of _run_code_generation: MAX_TOTAL_RETRIES is enforced; an         *)
(* invocation made after that many generation calls returns False at once   *)
RunCodeGeneration_TotalCap(c, who) ==
    IF Cardinality({i \in DOMAIN c.calls : c.calls[i].to = "generate"}) >= MAX_TOTAL_RETRIES
    THEN GenerationReturned([c EXCEPT !.state.current_stage = "CODE_GENERATION",
                                      !.caller = who], FALSE)
    ELSE [c EXCEPT !.state.current_stage = "CODE_GENERATION",
                   !.attempt.generation = 1, !.pc = "gen", !.caller = who]

(* _run_code_generation up to its first generation call *)
RunCodeGeneration(c, who) ==
    [c EXCEPT !.state.current_stage = "CODE_GENERATION",
              !.attempt.generation = 1, !.pc = "gen", !.caller = who]

(* Mutant of request_data: the feedback is the oldest entry of              *)
(* error_messages ([0]) instead of the latest ([-1])                        *)
RequestData_OldestFeedback(st, k) ==
    IF k > 1 /\ st.error_messages # <<>>
    THEN [action |-> "generate", request |-> st.user_request,
          constraints |-> <<"python_only", "no_placeholders">>,
          previous_attempt |-> st.artifacts.generated_code,
          feedback |-> st.error_messages[1]]
    ELSE [action |-> "generate", request |-> st.user_request,
          constraints |-> <<"python_only", "no_placeholders">>]

(* Mutant of request_data: previous_attempt is sent with every attempt, the *)
(* first one included                                                       *)
RequestData_AlwaysPrevious(st, k) ==
    IF k > 1 /\ st.error_messages # <<>>
    THEN [action |-> "generate", request |-> st.user_request,
          constraints |-> <<"python_only", "no_placeholders">>,
          previous_attempt |-> st.artifacts.generated_code,
          feedback |-> st.error_messages[Len(st.error_messages)]]
    ELSE [action |-> "generate", request |-> st.user_request,
          constraints |-> <<"python_only", "no_placeholders">>,
          previous_attempt |-> st.artifacts.generated_code]

(* _run_code_generation: request_data of one attempt *)
RequestData(st, k) ==
    IF k > 1 /\ st.error_messages # <<>>
    THEN [action |-> "generate", request |-> st.user_request,
          constraints |-> <<"python_only", "no_placeholders">>,
          previous_attempt |-> st.artifacts.generated_code,
          feedback |-> st.error_messages[Len(st.error_messages)]]
    ELSE [action |-> "generate", request |-> st.user_request,
          constraints |-> <<"python_only", "no_placeholders">>]

(* Mutant of the loop head: the counter is incremented per call instead of  *)
(* being set to the loop variable                                           *)
CallGenerate_Cumulative(c) ==
    LET k == c.attempt.generation
        st == [c.state EXCEPT !.attempts.generation = @ + 1]
    IN  [c EXCEPT !.state = st,
                  !.last_request = [data |-> RequestData(st, k), attempt |-> k,
                                    caller |-> c.caller, reinvoked |-> c.reinvoked]]

(* _run_code_generation: head of one loop iteration up to the call of       *)
(* code_generator.generate                                                  *)
CallGenerate(c) ==
    LET k == c.attempt.generation
        st == [c.state EXCEPT !.attempts.generation = k]
    IN  [c EXCEPT !.state = st,
                  !.last_request = [data |-> RequestData(st, k), attempt |-> k,
                                    caller |-> c.caller, reinvoked |-> c.reinvoked]]

(* Mutant of the result handling: result.get("code") is stored before the   *)
(* status is tested, so an error result clears the candidate                *)
OnGenerateResult_StoresBeforeTest(c, result) ==
    IF result.status = "success"
    THEN GenerationReturned(
             [Called(c, "generate", result.status, result.code)
                 EXCEPT !.state.artifacts.generated_code = result.code,
                        !.codes_seen = IF result.code > @ THEN result.code ELSE @],
             TRUE)
    ELSE LET error_msg == IF "error" \in DOMAIN result THEN result.error ELSE "Unknown error"
         IN  GenerationNextAttempt(
                 [Called(c, "generate", result.status, None)
                     EXCEPT !.state.artifacts.generated_code = None,
                            !.state.error_messages = Append(@, "Generation error: " \o error_msg),
                            !.failures = @ + 1])

(* Mutant of the else branch: an error status is logged to the console      *)
(* only, not appended to error_messages                                     *)
OnGenerateResult_SilentError(c, result) ==
    IF result.status = "success"
    THEN GenerationReturned(
             [Called(c, "generate", result.status, result.code)
                 EXCEPT !.state.artifacts.generated_code = result.code,
                        !.codes_seen = IF result.code > @ THEN result.code ELSE @],
             TRUE)
    ELSE GenerationNextAttempt(
             [Called(c, "generate", result.status, None) EXCEPT !.failures = @ + 1])

(* _run_code_generation: the generation service returned `result` *)
OnGenerateResult(c, result) ==
    IF result.status = "success"
    THEN GenerationReturned(
             [Called(c, "generate", result.status, result.code)
                 EXCEPT !.state.artifacts.generated_code = result.code,
                        !.codes_seen = IF result.code > @ THEN result.code ELSE @],
             TRUE)
    ELSE LET error_msg == IF "error" \in DOMAIN result THEN result.error ELSE "Unknown error"
         IN  GenerationNextAttempt(
                 [Called(c, "generate", result.status, None)
                     EXCEPT !.state.error_messages = Append(@, "Generation error: " \o error_msg),
                            !.failures = @ + 1])

(* Mutant of the except clause: the message replaces the log instead of    *)
(* being appended to it                                                     *)
OnGenerateException_Overwrite(c, e) ==
    GenerationNextAttempt(
        [Called(c, "generate", "raise", None)
            EXCEPT !.state.error_messages = <<"Generation exception: " \o e>>,
                  !.failures = @ + 1])

(* _run_code_generation: the generation service raised e *)
OnGenerateException(c, e) ==
    GenerationNextAttempt(
        [Called(c, "generate", "raise", None)
            EXCEPT !.state.error_messages = Append(@, "Generation exception: " \o e),
                  !.failures = @ + 1])

(* Mutant of the loop head: the pass number is counted from 0              *)
CallValidate_ZeroBased(c) ==
    [c EXCEPT !.state.attempts.syntax_fix = c.attempt.syntax - 1]

(* _run_syntax_validation: head of one loop iteration up to the call of     *)
(* syntax_checker.validate                                                  *)
CallValidate(c) ==
    [c EXCEPT !.state.attempts.syntax_fix = c.attempt.syntax]

(* The corrected_code of a validator result, None when it carries none *)
CorrectedBy(result) ==
    IF "corrected_code" \in DOMAIN result THEN result.corrected_code ELSE None

(* Mutant of the auto-correction branch: the adopted correction is also     *)
(* logged to error_messages like a regeneration brief                       *)
OnValidateResult_CorrectionLogged(c, result) ==
    LET code == c.state.artifacts.generated_code
        c1 == [Called(c, "validate", result.status, CorrectedBy(result))
                 EXCEPT !.state.artifacts.syntax_result = result,
                        !.failures = IF result.status = "SYNTAX_VALID" THEN @ ELSE @ + 1]
    IN  IF result.status = "SYNTAX_VALID"
        THEN AfterSyntaxValidation(c1)
        ELSE IF "corrected_code" \in DOMAIN result /\ result.corrected_code # None
             THEN SyntaxNextPass([c1 EXCEPT !.state.artifacts.generated_code = result.corrected_code,
                                        !.state.error_messages = Append(@, FormatSyntaxErrors(result))])
             ELSE LET error_feedback == FormatSyntaxErrors(result)
                  IN  RunCodeGeneration(
                          [c1 EXCEPT !.state.error_messages = Append(@, error_feedback),
                                     !.reinvoked = [stage |-> "syntax", brief |-> error_feedback,
                                                    candidate |-> code]],
                          "syntax")

(* Mutant of the auto-correction branch: the corrected variant is reported  *)
(* but not stored as the candidate                                          *)
OnValidateResult_CorrectionDropped(c, result) ==
    LET code == c.state.artifacts.generated_code
        c1 == [Called(c, "validate", result.status, CorrectedBy(result))
                 EXCEPT !.state.artifacts.syntax_result = result,
                        !.failures = IF result.status = "SYNTAX_VALID" THEN @ ELSE @ + 1]
    IN  IF result.status = "SYNTAX_VALID"
        THEN AfterSyntaxValidation(c1)
        ELSE IF "corrected_code" \in DOMAIN result /\ result.corrected_code # None
             THEN SyntaxNextPass(c1)
             ELSE LET error_feedback == FormatSyntaxErrors(result)
                  IN  RunCodeGeneration(
                          [c1 EXCEPT !.state.error_messages = Append(@, error_feedback),
                                     !.reinvoked = [stage |-> "syntax", brief |-> error_feedback,
                                                    candidate |-> code]],
                          "syntax")

(* _run_syntax_validation: the validator returned `result` *)
OnValidateResult(c, result) ==
    LET code == c.state.artifacts.generated_code
        c1 == [Called(c, "validate", result.status, CorrectedBy(result))
                 EXCEPT !.state.artifacts.syntax_result = result,
                        !.failures = IF result.status = "SYNTAX_VALID" THEN @ ELSE @ + 1]
    IN  IF result.status = "SYNTAX_VALID"
        THEN AfterSyntaxValidation(c1)
        ELSE IF "corrected_code" \in DOMAIN result /\ result.corrected_code # None
             THEN SyntaxNextPass([c1 EXCEPT !.state.artifacts.generated_code = result.corrected_code])
             ELSE LET error_feedback == FormatSyntaxErrors(result)
                  IN  RunCodeGeneration(
                          [c1 EXCEPT !.state.error_messages = Append(@, error_feedback),
                                     !.reinvoked = [stage |-> "syntax", brief |-> error_feedback,
                                                    candidate |-> code]],
                          "syntax")

(* _run_syntax_validation: the validator raised e *)
OnValidateException(c, e) ==
    SyntaxNextPass(
        [Called(c, "validate", "raise", None)
            EXCEPT !.state.error_messages = Append(@, "Syntax validation exception: " \o e),
                  !.failures = @ + 1])

(* _run_hallucination_detection: head of one loop iteration up to the call  *)
(* of hallucination_detector.verify                                         *)
CallVerify(c) ==
    [c EXCEPT !.state.attempts.hallucination_fix = c.attempt.hallucination]

(* Mutant of the verdict test: only HALLUCINATION_DETECTED is a rejection,  *)
(* so a VERIFICATION_FAILED answer passes the stage                         *)
OnVerifyResult_Lenient(c, result) ==
    LET code == c.state.artifacts.generated_code
        c1 == [Called(c, "verify", result.status, None)
                 EXCEPT !.state.artifacts.hallucination_result = result,
                        !.failures = IF result.status = "VERIFIED" THEN @ ELSE @ + 1]
    IN  IF result.status # "HALLUCINATION_DETECTED"
        THEN AfterHallucinationDetection(c1)
        ELSE LET error_feedback == FormatHallucinationErrors(result)
             IN  RunCodeGeneration(
                     [c1 EXCEPT !.state.error_messages = Append(@, error_feedback),
                                !.reinvoked = [stage |-> "halluc", brief |-> error_feedback,
                                               candidate |-> code]],
                     "halluc")

(* Mutant of the rejection branch: the feedback brief is not appended to    *)
(* error_messages before generation is re-invoked                           *)
OnVerifyResult_NoFeedback(c, result) ==
    LET code == c.state.artifacts.generated_code
        c1 == [Called(c, "verify", result.status, None)
                 EXCEPT !.state.artifacts.hallucination_result = result,
                        !.failures = IF result.status = "VERIFIED" THEN @ ELSE @ + 1]
    IN  IF result.status = "VERIFIED"
        THEN AfterHallucinationDetection(c1)
        ELSE LET error_feedback == FormatHallucinationErrors(result)
             IN  RunCodeGeneration(
                     [c1 EXCEPT !.reinvoked = [stage |-> "halluc", brief |-> error_feedback,
                                               candidate |-> code]],
                     "halluc")

(* _run_hallucination_detection: the verifier returned `result` *)
OnVerifyResult(c, result) ==
    LET code == c.state.artifacts.generated_code
        c1 == [Called(c, "verify", result.status, None)
                 EXCEPT !.state.artifacts.hallucination_result = result,
                        !.failures = IF result.status = "VERIFIED" THEN @ ELSE @ + 1]
    IN  IF result.status = "VERIFIED"
        THEN AfterHallucinationDetection(c1)
        ELSE LET error_feedback == FormatHallucinationErrors(result)
             IN  RunCodeGeneration(
                     [c1 EXCEPT !.state.error_messages = Append(@, error_feedback),
                                !.reinvoked = [stage |-> "halluc", brief |-> error_feedback,
                                               candidate |-> code]],
                     "halluc")

(* _run_hallucination_detection: the verifier raised e *)
OnVerifyException(c, e) ==
    HallucinationNextPass(
        [Called(c, "verify", "raise", None)
            EXCEPT !.state.error_messages = Append(@, "Hallucination detection exception: " \o e),
                  !.failures = @ + 1])

(* _run_code_review: the review service returned `result` *)
OnReviewResult(c, result) ==
    ReturnSuccess([CalledReview(c, result.status)
                      EXCEPT !.state.artifacts.review_result = result])

(* Mutant of the except clause: a review fault fails the request like a     *)
(* fault of the earlier stages                                              *)
OnReviewException_Fatal(c, e) ==
    ReturnFailure([CalledReview(c, "raise")
                      EXCEPT !.state.artifacts.review_result = [status |-> "error", error |-> e],
                             !.failures = @ + 1])

(* _run_code_review: the review service raised e *)
OnReviewException(c, e) ==
    ReturnSuccess([CalledReview(c, "raise")
                      EXCEPT !.state.artifacts.review_result = [status |-> "error", error |-> e],
                             !.failures = @ + 1])

----------------------------------------------------------------------------
(* Orchestrator.__init__: no request yet *)
Init ==
    /\ enable_code_review \in BOOLEAN
    /\ states = << >>
    /\ pc = "idle"
    /\ caller = "none"
    /\ attempt = [generation |-> 0, syntax |-> 0, hallucination |-> 0]
    /\ response = NoResponse
    /\ calls = <<>>
    /\ last_request = NoRequest
    /\ reinvoked = NoReinvoke
    /\ exhausted = "none"
    /\ failures = 0
    /\ codes_seen = 0
    /\ looked = {}
    /\ applied = NotApplied

(* generate_code(user_request): create and store the RequestState, enter    *)
(* stage 1                                                                  *)
GenerateCode ==
    /\ pc = "idle"
    /\ Become(RunCodeGeneration(Config(NewRequestState(UserRequest)), "main"))

(* One generation attempt whose call returns status success *)
GenerateSucceeds ==
    /\ pc = "gen"
    /\ \E result \in GenResults(codes_seen) :
          /\ result.status = "success"
          /\ Become(OnGenerateResult(CallGenerate(Cur), result))

(* One generation attempt whose call returns a status other than success *)
GenerateFails ==
    /\ pc = "gen"
    /\ failures < MaxFailures
    /\ \E result \in GenResults(codes_seen) :
          /\ result.status # "success"
          /\ Become(OnGenerateResult(CallGenerate(Cur), result))

(* One generation attempt whose call raises *)
GenerateRaises ==
    /\ pc = "gen"
    /\ failures < MaxFailures
    /\ \E e \in Exceptions : Become(OnGenerateException(CallGenerate(Cur), e))

(* One syntax pass whose validator call answers SYNTAX_VALID *)
ValidateAccepts ==
    /\ pc = "syntax"
    /\ \E result \in SyntaxResults :
          /\ result.status = "SYNTAX_VALID"
          /\ Become(OnValidateResult(CallValidate(Cur), result))

(* One syntax pass whose validator call answers anything else *)
ValidateRejects ==
    /\ pc = "syntax"
    /\ failures < MaxFailures
    /\ \E result \in SyntaxResults :
          /\ result.status # "SYNTAX_VALID"
          /\ Become(OnValidateResult(CallValidate(Cur), result))

(* One syntax pass whose validator call raises *)
ValidateRaises ==
    /\ pc = "syntax"
    /\ failures < MaxFailures
    /\ \E e \in Exceptions : Become(OnValidateException(CallValidate(Cur), e))

(* One reference pass whose verifier call answers VERIFIED *)
VerifyAccepts ==
    /\ pc = "halluc"
    /\ \E result \in HallucinationResults :
          /\ result.status = "VERIFIED"
          /\ Become(OnVerifyResult(CallVerify(Cur), result))

(* One reference pass whose verifier call answers anything else *)
VerifyRejects ==
    /\ pc = "halluc"
    /\ failures < MaxFailures
    /\ \E result \in HallucinationResults :
          /\ result.status # "VERIFIED"
          /\ Become(OnVerifyResult(CallVerify(Cur), result))

(* One reference pass whose verifier call raises *)
VerifyRaises ==
    /\ pc = "halluc"
    /\ failures < MaxFailures
    /\ \E e \in Exceptions : Become(OnVerifyException(CallVerify(Cur), e))

(* The review call returns *)
ReviewReturns ==
    /\ pc = "review"
    /\ \E result \in ReviewResults : Become(OnReviewResult(Cur, result))

(* The review call raises *)
ReviewRaises ==
    /\ pc = "review"
    /\ failures < MaxFailures
    /\ \E e \in Exceptions : Become(OnReviewException(Cur, e))

(* A further generate_code(user_request) on the same orchestrator, after    *)
(* the previous call returned: a new RequestState is stored beside the      *)
(* earlier ones and the call starts with fresh locals                       *)
GenerateCodeAgain ==
    /\ pc = "done"
    /\ Cardinality(DOMAIN states) < MaxRequests
    /\ Become(RunCodeGeneration(
           [Config(NewRequestState(UserRequest)) EXCEPT
               !.attempt = [generation |-> 0, syntax |-> 0, hallucination |-> 0],
               !.response = NoResponse, !.calls = <<>>,
               !.last_request = NoRequest, !.reinvoked = NoReinvoke,
               !.exhausted = "none", !.codes_seen = 0], "main"))

(* get_state(request_id), called after a generate_code call has returned:   *)
(* returns the to_dict of the stored state, or None, and stores nothing     *)
LookupState ==
    /\ pc = "done"
    /\ Cardinality(looked) < MaxLookups
    /\ \E request_id \in RequestIds :
          looked' = looked \cup {[request_id |-> request_id,
                                  requests |-> Cardinality(DOMAIN states),
                                  snapshot |-> GetState(request_id)]}
    /\ UNCHANGED <<enable_code_review, states, pc, caller, attempt, response,
                   calls, last_request, reinvoked, exhausted, failures, codes_seen,
                   applied>>

Next ==
    \/ GenerateCode
    \/ GenerateSucceeds
    \/ GenerateFails
    \/ GenerateRaises
    \/ ValidateAccepts
    \/ ValidateRejects
    \/ ValidateRaises
    \/ VerifyAccepts
    \/ VerifyRejects
    \/ VerifyRaises
    \/ ReviewReturns
    \/ ReviewRaises

Spec == Init /\ [][Next]_vars

(* Execution is sequential and every collaborator call returns or raises,   *)
(* so generate_code always takes its next step.                             *)
(* The steps of Next that keep the failing, rejecting and raising calls     *)
(* within n                                                                 *)
Serving(n) ==
    \/ GenerateCode /\ failures' <= n
    \/ GenerateSucceeds /\ failures' <= n
    \/ GenerateFails /\ failures' <= n
    \/ GenerateRaises /\ failures' <= n
    \/ ValidateAccepts /\ failures' <= n
    \/ ValidateRejects /\ failures' <= n
    \/ ValidateRaises /\ failures' <= n
    \/ VerifyAccepts /\ failures' <= n
    \/ VerifyRejects /\ failures' <= n
    \/ VerifyRaises /\ failures' <= n
    \/ ReviewReturns /\ failures' <= n
    \/ ReviewRaises /\ failures' <= n

LiveNext == Serving(MaxLiveFailures)
LiveSpec == Init /\ [][LiveNext]_vars /\ WF_vars(LiveNext)

(* One orchestrator serving several requests and state lookups *)
StoreNext ==
    \/ Serving(MaxStoreFailures)
    \/ GenerateCodeAgain
    \/ LookupState
StoreSpec == Init /\ [][StoreNext]_vars

----------------------------------------------------------------------------
(* Sequences of at most n elements of S *)
SeqUpTo(S, n) == UNION {[1..k -> S] : k \in 0..n}

(* Validator results a formatter may be given: every list of up to          *)
(* MaxIssues error entries, an entry being complete or lacking its keys,    *)
(* and a result without the `errors` key                                    *)
SyntaxIssues ==
    {[line |-> 1, issue |-> "invalid syntax", fix |-> "Add ':' at the end"],
     [line |-> 2, issue |-> "unexpected indent", fix |-> "Check indentation"],
     [type |-> "SyntaxError"]}
SyntaxInputs ==
    {[status |-> "SYNTAX_ERROR", errors |-> es] : es \in SeqUpTo(SyntaxIssues, MaxIssues)}
        \cup {[status |-> "PARSE_FAILED"]}

(* Verifier results a formatter may be given *)
HallucinationIssues ==
    {[type |-> "Library", referenced |-> "fakelib",
      issue |-> "Module not found", suggestion |-> "Remove it"],
     [type |-> "Library", referenced |-> "nolib",
      issue |-> "Module not found", suggestion |-> "Use json"],
     [referenced |-> "ghost"]}
HallucinationInputs ==
    {[status |-> "HALLUCINATION_DETECTED", hallucinations |-> hs] :
        hs \in SeqUpTo(HallucinationIssues, MaxIssues)}
        \cup {[status |-> "VERIFICATION_FAILED"]}

(* A call of _format_syntax_errors(result), at any point of a run *)
FormatSyntaxErrorsCall ==
    /\ \E result \in SyntaxInputs :
          applied' = [fn |-> "_format_syntax_errors", arg |-> result,
                      ret |-> FormatSyntaxErrors(result)]
    /\ UNCHANGED <<enable_code_review, states, pc, caller, attempt, response,
                   calls, last_request, reinvoked, exhausted, failures, codes_seen,
                   looked>>

(* A call of _format_hallucination_errors(result), at any point of a run *)
FormatHallucinationErrorsCall ==
    /\ \E result \in HallucinationInputs :
          applied' = [fn |-> "_format_hallucination_errors", arg |-> result,
                      ret |-> FormatHallucinationErrors(result)]
    /\ UNCHANGED <<enable_code_review, states, pc, caller, attempt, response,
                   calls, last_request, reinvoked, exhausted, failures, codes_seen,
                   looked>>

(* One request served by accepting collaborators while the formatters are   *)
(* called                                                                   *)
FormatNext ==
    \/ GenerateCode
    \/ GenerateSucceeds
    \/ ValidateAccepts
    \/ VerifyAccepts
    \/ ReviewReturns
    \/ FormatSyntaxErrorsCall
    \/ FormatHallucinationErrorsCall
FormatSpec == Init /\ [][FormatNext]_vars

(* HallucinationDetectorAgent.  A code text is given by what verify reads   *)
(* of it: whether it is blank, whether ast.parse accepts it, and the        *)
(* modules of its import entries in the order _extract_imports lists them.  *)
(* The module names have one component, so split('.')[0] is the name.       *)
STDLIB_MODULES == {"os"}            \* one member of the set at lines 25-54
KNOWN_THIRD_PARTY == {"numpy"}      \* one member of the set at lines 57-67
InstalledModules == {"yaml"}        \* in neither set, importable in the environment
ModuleNames == {"os", "numpy", "yaml", "fakelib", ""}

VerifierCodes ==
    {[kind |-> "blank"], [kind |-> "unparseable"]}
        \cup {[kind |-> "parsed", imports |-> ms] : ms \in SeqUpTo(ModuleNames, MaxImports)}

(* _is_stdlib *)
IsStdlib(module_name) == module_name \in STDLIB_MODULES

(* _is_known_third_party *)
IsKnownThirdParty(module_name) == module_name \in KNOWN_THIRD_PARTY

(* importlib.import_module(name): returns, raises ImportError for a module  *)
(* that is not installed, raises ValueError("Empty module name") for the    *)
(* empty name that `from . import x` has as its module                      *)
ImportModule(module_name) ==
    CASE module_name = "" -> "ValueError"
      [] module_name \in STDLIB_MODULES \cup KNOWN_THIRD_PARTY \cup InstalledModules -> "returns"
      [] OTHER -> "ImportError"

(* _verify_import; an exception other than ImportError leaves the function  *)
VerifyImport(module_name) ==
    IF IsStdlib(module_name)
    THEN [is_valid |-> TRUE, source |-> "Python Standard Library"]
    ELSE IF IsKnownThirdParty(module_name)
    THEN [is_valid |-> TRUE, source |-> "Known Third-Party Library"]
    ELSE CASE ImportModule(module_name) = "returns" ->
                  [is_valid |-> TRUE, source |-> "Installed Package"]
           [] ImportModule(module_name) = "ImportError" ->
                  [is_valid |-> FALSE, issue |-> "Module does not exist or is not installed"]
           [] OTHER -> [raised |-> ImportModule(module_name)]

(* verify: the for loop over the imports from its i-th entry on, collecting *)
(* one hallucination entry per import that is not valid                     *)
RECURSIVE Hallucinations(_, _)
Hallucinations(imports, i) ==
    IF i > Len(imports) THEN <<>>
    ELSE LET result == VerifyImport(imports[i])
         IN  IF result.is_valid THEN Hallucinations(imports, i + 1)
             ELSE <<[type |-> "Library", referenced |-> imports[i],
                     issue |-> result.issue]>> \o Hallucinations(imports, i + 1)

(* HallucinationDetectorAgent.verify *)
Verify(code) ==
    IF code.kind = "blank"
    THEN [status |-> "VERIFICATION_FAILED", message |-> "Empty code provided",
          hallucinations |-> <<>>]
    ELSE IF code.kind = "unparseable"
    THEN [status |-> "VERIFICATION_FAILED", message |-> "Cannot verify code with syntax errors",
          hallucinations |-> <<>>]
    ELSE IF \E i \in DOMAIN code.imports : "raised" \in DOMAIN VerifyImport(code.imports[i])
    THEN [status |-> "VERIFICATION_FAILED", message |-> "Verification failed",
          hallucinations |-> <<>>]
    ELSE LET hallucinations == Hallucinations(code.imports, 1)
         IN  IF hallucinations = <<>>
             THEN [status |-> "VERIFIED", message |-> "All verified", hallucinations |-> <<>>]
             ELSE [status |-> "HALLUCINATION_DETECTED", message |-> "Hallucinations found",
                   hallucinations |-> hallucinations]

(* A call of HallucinationDetectorAgent.verify(code) *)
VerifyCall ==
    /\ \E code \in VerifierCodes :
          applied' = [fn |-> "verify", arg |-> code, ret |-> Verify(code)]
    /\ UNCHANGED <<enable_code_review, states, pc, caller, attempt, response,
                   calls, last_request, reinvoked, exhausted, failures, codes_seen,
                   looked>>

VerifierNext == VerifyCall
VerifierSpec == Init /\ [][VerifierNext]_vars

(* SyntaxCheckerAgent.  A code text is given by what validate reads of it:  *)
(* whether it is blank, what ast.parse does with it (returns, raises        *)
(* SyntaxError, raises something else) and, for a SyntaxError, the fix that *)
(* _suggest_fix names, whether the reported line can be edited that way,    *)
(* and the text the edit produces.                                          *)
NoText == [kind |-> "None"]
SuggestedFixes ==
    {"Add ':' at the end", "Add closing parenthesis ')'", "Add closing bracket ']'",
     "Check syntax around this line"}

(* The fixes _attempt_correction applies (lines 171, 177, 183) *)
AppliedFixes ==
    {"Add ':' at the end", "Add closing parenthesis ')'", "Add closing bracket ']'"}

RECURSIVE ValidatorTexts(_)
ValidatorTexts(edits) ==
    {[kind |-> "blank"], [kind |-> "valid"], [kind |-> "other_error"]}
        \cup {[kind |-> "syntax_error", fix |-> f, editable |-> FALSE] : f \in SuggestedFixes}
        \cup (IF edits = 0 THEN {}
              ELSE {[kind |-> "syntax_error", fix |-> f, editable |-> TRUE, after |-> t] :
                       f \in SuggestedFixes,
                       t \in ValidatorTexts(edits - 1) \ {[kind |-> "blank"]}})

(* _parse_syntax_error: one entry *)
ParseSyntaxError(code) ==
    <<[line |-> 1, issue |-> "invalid syntax", fix |-> code.fix]>>

(* Mutant of _attempt_correction: the corrected text is returned without    *)
(* being parsed                                                             *)
AttemptCorrection_Unchecked(code, errors) ==
    IF errors = <<>> THEN NoText
    ELSE IF code.editable /\ errors[1].fix \in AppliedFixes
    THEN code.after
    ELSE NoText

(* _attempt_correction: edit the reported line; the result is returned only *)
(* if ast.parse accepts it                                                  *)
AttemptCorrection(code, errors) ==
    IF errors = <<>> THEN NoText
    ELSE IF code.editable /\ errors[1].fix \in AppliedFixes
    THEN IF code.after.kind = "valid" THEN code.after ELSE NoText
    ELSE NoText

(* Mutant of validate: only `not code` is tested, so whitespace-only code   *)
(* goes on to ast.parse, which accepts it                                   *)
Validate_NoBlankCheck(code) ==
    CASE code.kind \in {"valid", "blank"} -> [status |-> "SYNTAX_VALID"]
      [] code.kind = "syntax_error" ->
             LET errors == ParseSyntaxError(code)
             IN  [status |-> "SYNTAX_ERROR", errors |-> errors,
                  corrected_code |-> AttemptCorrection(code, errors)]
      [] OTHER ->
             [status |-> "PARSE_FAILED",
              errors |-> <<[line |-> 0, issue |-> "parser fault",
                            fix |-> "Review code structure"]>>]

(* SyntaxCheckerAgent.validate *)
Validate(code) ==
    CASE code.kind = "blank" ->
             [status |-> "PARSE_FAILED",
              errors |-> <<[line |-> 0, issue |-> "Empty or whitespace-only code provided",
                            fix |-> "Provide valid Python code"]>>]
      [] code.kind = "valid" -> [status |-> "SYNTAX_VALID"]
      [] code.kind = "syntax_error" ->
             LET errors == ParseSyntaxError(code)
             IN  [status |-> "SYNTAX_ERROR", errors |-> errors,
                  corrected_code |-> AttemptCorrection(code, errors)]
      [] OTHER ->
             [status |-> "PARSE_FAILED",
              errors |-> <<[line |-> 0, issue |-> "parser fault",
                            fix |-> "Review code structure"]>>]

(* The corrected_code of a result of validate *)
CorrectedText(result) ==
    IF "corrected_code" \in DOMAIN result THEN result.corrected_code ELSE NoText

(* A call of SyntaxCheckerAgent.validate(code); `revalidated` notes that    *)
(* the code is the corrected_code the previous call returned                *)
ValidateCall ==
    /\ \E code \in ValidatorTexts(MaxEdits) :
          applied' = [fn |-> "validate", arg |-> code, ret |-> Validate(code),
                      revalidated |-> /\ applied.fn = "validate"
                                      /\ code = CorrectedText(applied.ret)]
    /\ UNCHANGED <<enable_code_review, states, pc, caller, attempt, response,
                   calls, last_request, reinvoked, exhausted, failures, codes_seen,
                   looked>>

ValidatorNext == ValidateCall
ValidatorSpec == Init /\ [][ValidatorNext]_vars

(* Whole runs of one request, with no limit on the failing calls.  The code *)
(* texts do not enter the counts, so the generation service here knows one  *)
(* text: every call returns it or reports an error.                         *)
GenerateAnswers ==
    /\ pc = "gen"
    /\ \E result \in GenResults(0) : Become(OnGenerateResult(CallGenerate(Cur), result))

(* One syntax pass: the validator returns any of its results or raises *)
ValidateAnswers ==
    /\ pc = "syntax"
    /\ \/ \E result \in SyntaxResults : Become(OnValidateResult(CallValidate(Cur), result))
       \/ \E e \in Exceptions : Become(OnValidateException(CallValidate(Cur), e))

(* One reference pass: the verifier returns any of its results or raises *)
VerifyAnswers ==
    /\ pc = "halluc"
    /\ \/ \E result \in HallucinationResults : Become(OnVerifyResult(CallVerify(Cur), result))
       \/ \E e \in Exceptions : Become(OnVerifyException(CallVerify(Cur), e))

(* The review call returns or raises *)
ReviewAnswers ==
    /\ pc = "review"
    /\ \/ \E result \in ReviewResults : Become(OnReviewResult(Cur, result))
       \/ \E e \in Exceptions : Become(OnReviewException(Cur, e))

WholeNext ==
    \/ GenerateCode
    \/ GenerateAnswers
    \/ ValidateAnswers
    \/ VerifyAnswers
    \/ ReviewAnswers
WholeSpec == Init /\ [][WholeNext]_vars

----------------------------------------------------------------------------

(* History read off the call log *)
CallsTo(to) == {i \in DOMAIN calls : calls[i].to = to}
gen_calls == Cardinality(CallsTo("generate"))
faults == Cardinality({i \in DOMAIN calls : calls[i].out = "raise"})
valid_on == {calls[i].arg : i \in {j \in CallsTo("validate") : calls[j].out = "SYNTAX_VALID"}}
LastCallTo(to) == calls[CHOOSE i \in CallsTo(to) : \A j \in CallsTo(to) : j <= i]
Outcomes == [i \in DOMAIN calls |-> <<calls[i].to, calls[i].out>>]
Started == RequestId \in DOMAIN states
Returned == pc = "done"

TypeOK ==
    /\ pc \in {"idle", "gen", "syntax", "halluc", "review", "done"}
    /\ caller \in {"none", "main", "syntax", "halluc"}
    /\ failures \in 0..MaxFailures
    /\ Started <=> pc # "idle"
    /\ Returned <=> response # NoResponse

----------------------------------------------------------------------------
(* C1: in the scenario "generation succeeds at once, the validator accepts, *)
(* the verifier reports one non-existent module on pass 1, the re-invoked   *)
(* generation succeeds at once, the verifier accepts on pass 2", the        *)
(* response is success with hallucination_fix_attempts = 2 and              *)
(* generation_attempts = 2.                                                 *)
C1_Scenario ==
    /\ Returned
    /\ Len(calls) >= 5
    /\ SubSeq(Outcomes, 1, 5) = << <<"generate", "success">>,
                                   <<"validate", "SYNTAX_VALID">>,
                                   <<"verify", "HALLUCINATION_DETECTED">>,
                                   <<"generate", "success">>,
                                   <<"verify", "VERIFIED">> >>

C1_ReferenceRetryScenario ==
    C1_Scenario =>
        /\ response.status = "success"
        /\ response.metadata.hallucination_fix_attempts = 2
        /\ response.metadata.generation_attempts = 2

(* C2: attempts["generation"] is cumulative: at every point of a run, and   *)
(* in metadata.generation_attempts of the final response, it equals the     *)
(* number of generation-service calls made so far for the request.          *)
C2_GenerationAttemptsCumulative ==
    /\ Started => states[RequestId].attempts.generation = gen_calls
    /\ Returned => response.metadata.generation_attempts = gen_calls

(* C3: no step of generate_code lowers any of the three attempt counters.   *)
C3_CountersNeverDecrease ==
    [][Started =>
          \A k \in {"generation", "syntax_fix", "hallucination_fix"} :
              states'[RequestId].attempts[k] >= states[RequestId].attempts[k]]_vars

(* C4: the first generation call of a re-invocation made by the syntax or   *)
(* reference stage carries the brief that stage appended as `feedback` and  *)
(* the rejected candidate as `previous_attempt`, besides the request.       *)
C4_ReinvocationCarriesFeedback ==
    (last_request.caller \in {"syntax", "halluc"} /\ last_request.attempt = 1) =>
        /\ last_request.data.request = UserRequest
        /\ "feedback" \in DOMAIN last_request.data
        /\ "previous_attempt" \in DOMAIN last_request.data
        /\ last_request.data.feedback = last_request.reinvoked.brief
        /\ last_request.data.previous_attempt = last_request.reinvoked.candidate

(* C5: when a stage exhausts its retry budget the response is failed and    *)
(* metadata.failed_at_stage names the stage whose budget was exhausted.     *)
C5_FailedAtExhaustedStage ==
    (Returned /\ exhausted # "none") =>
        /\ response.status = "failed"
        /\ response.metadata.failed_at_stage = StageValue(exhausted)

(* C6: the code of a success response is a candidate on which the syntax    *)
(* validator answered SYNTAX_VALID.                                         *)
C6_SuccessCodeSyntaxValid ==
    (Returned /\ response.status = "success") => response.code \in valid_on

(* C7: in a success response attempts["generation"] >= 1 and the code is    *)
(* exactly the candidate on which the verifier's most recent call answered  *)
(* VERIFIED.                                                                *)
C7_SuccessCodeVerified ==
    (Returned /\ response.status = "success") =>
        /\ states[RequestId].attempts.generation >= 1
        /\ response.metadata.generation_attempts >= 1
        /\ CallsTo("verify") # {}
        /\ LastCallTo("verify").out = "VERIFIED"
        /\ LastCallTo("verify").arg = response.code
        /\ response.code = states[RequestId].artifacts.generated_code

C7_Witness ==
    /\ Returned
    /\ response.status = "success"
    /\ Cardinality(CallsTo("verify")) >= 2
    /\ \E i \in CallsTo("verify") : calls[i].arg # response.code

(* C8: once generate_code has returned, get_state shows status completed    *)
(* after a success response and failed after a failed response, never       *)
(* in_progress.                                                             *)
C8_StatusSetAtReturn ==
    Returned =>
        /\ response.status = "success" => GetState(RequestId).status = "completed"
        /\ response.status = "failed" => GetState(RequestId).status = "failed"
        /\ GetState(RequestId).status # "in_progress"

(* C9: whatever the collaborators answer or raise, generate_code stays on   *)
(* its normal path and returns a response whose status is success or        *)
(* failed.                                                                  *)
C9_AlwaysWellFormedResponse ==
    /\ pc \in {"idle", "gen", "syntax", "halluc", "review", "done"}
    /\ Returned <=> response.status \in {"success", "failed"}
    /\ ~Returned => response = NoResponse

C9_Witness ==
    /\ Returned
    /\ \A to \in {"generate", "validate", "verify", "review"} :
          \E i \in CallsTo(to) : calls[i].out = "raise"

(* C10: in every reachable state each attempt counter is within its         *)
(* configured maximum.                                                      *)
C10_CountersWithinMaximum ==
    Started =>
        /\ states[RequestId].attempts.generation <= MAX_GENERATION_RETRIES
        /\ states[RequestId].attempts.syntax_fix <= MAX_SYNTAX_RETRIES
        /\ states[RequestId].attempts.hallucination_fix <= MAX_HALLUCINATION_RETRIES

C10_Witness ==
    /\ Started
    /\ states[RequestId].attempts.generation = MAX_GENERATION_RETRIES
    /\ states[RequestId].attempts.syntax_fix = MAX_SYNTAX_RETRIES
    /\ gen_calls > MAX_GENERATION_RETRIES

----------------------------------------------------------------------------
(* A step that makes one collaborator call *)
CallStep == Len(calls') = Len(calls) + 1
NewCall == calls'[Len(calls')]

(* A syntax pass that adopts the validator's corrected_code *)
AdoptStep ==
    /\ CallStep
    /\ NewCall.to = "validate"
    /\ NewCall.out \notin {"SYNTAX_VALID", "raise"}
    /\ NewCall.ret # None

(* C11: a syntax pass that adopts corrected_code makes no generation call   *)
(* and leaves attempts["generation"] and error_messages unchanged;          *)
(* attempts["generation"] changes only in a step of the generation stage.   *)
C11_CorrectionUsesNoGeneration ==
    [][Started =>
          /\ AdoptStep =>
                /\ gen_calls' = gen_calls
                /\ pc' # "gen"
                /\ states'[RequestId].attempts.generation = states[RequestId].attempts.generation
                /\ states'[RequestId].error_messages = states[RequestId].error_messages
          /\ states'[RequestId].attempts.generation # states[RequestId].attempts.generation =>
                /\ pc = "gen"
                /\ gen_calls' = gen_calls + 1]_vars

C11_Witness ==
    /\ calls # <<>>
    /\ calls[Len(calls)].to = "validate"
    /\ calls[Len(calls)].ret = CorrectedCode
    /\ states[RequestId].artifacts.generated_code = CorrectedCode
    /\ states[RequestId].error_messages = <<>>
    /\ gen_calls = 1

(* C12: whenever a generation call carries `feedback`, it is the last       *)
(* element of error_messages at the moment of the call, and its             *)
(* `previous_attempt` is the current artifacts.generated_code.              *)
C12_FeedbackIsLatestError ==
    [][(Started /\ CallStep /\ NewCall.to = "generate"
          /\ "feedback" \in DOMAIN last_request'.data) =>
          /\ states[RequestId].error_messages # <<>>
          /\ last_request'.data.feedback =
                 states[RequestId].error_messages[Len(states[RequestId].error_messages)]
          /\ last_request'.data.previous_attempt =
                 states[RequestId].artifacts.generated_code]_vars

C12_Witness ==
    /\ "feedback" \in DOMAIN last_request.data
    /\ last_request.caller = "syntax"
    /\ last_request.data.feedback = "Generation error: bad output"
    /\ last_request.data.previous_attempt # None

IsPrefix(s, t) == Len(s) <= Len(t) /\ SubSeq(t, 1, Len(s)) = s

(* C13: error_messages is append-only (across every step its old content is *)
(* a prefix of the new one) and the `errors` list of a failure response is  *)
(* the full error_messages sequence in order.                               *)
C13_ErrorMessagesAppendOnly ==
    [][Started =>
          /\ IsPrefix(states[RequestId].error_messages, states'[RequestId].error_messages)
          /\ (Returned' /\ response'.status = "failed") =>
                 response'.errors = states'[RequestId].error_messages]_vars

C13_Witness ==
    /\ Returned
    /\ response.status = "failed"
    /\ Len(response.errors) >= 4
    /\ Cardinality({response.errors[i] : i \in DOMAIN response.errors}) >= 3

(* C15: the review stage never fails the pipeline: once the verifier has    *)
(* answered VERIFIED the response is success, whether the review service    *)
(* returns a result, returns an error status or raises; when it raises,     *)
(* review_result is the error record and the run ends in stage COMPLETED.   *)
C15_ReviewNeverFails ==
    (Returned /\ \E i \in CallsTo("verify") : calls[i].out = "VERIFIED") =>
        /\ response.status = "success"
        /\ states[RequestId].current_stage = "COMPLETED"
        /\ states[RequestId].status = "COMPLETED"
        /\ \A i \in CallsTo("review") :
              calls[i].out = "raise" =>
                  \E e \in Exceptions :
                      states[RequestId].artifacts.review_result = [status |-> "error", error |-> e]

C15_Witness ==
    /\ Returned
    /\ response.status = "success"
    /\ CallsTo("review") # {}
    /\ LastCallTo("review").out = "raise"
    /\ states[RequestId].artifacts.review_result = [status |-> "error", error |-> "boom"]

(* C16: if the generation service fails (error status or raise) on the 3    *)
(* attempts of the initial generation stage, the response is failed with    *)
(* failed_at_stage = "code_generation" and generation_attempts = 3, and no  *)
(* other collaborator is ever called.                                       *)
C16_Scenario ==
    /\ Len(calls) >= MAX_GENERATION_RETRIES
    /\ \A i \in 1..MAX_GENERATION_RETRIES :
          calls[i].to = "generate" /\ calls[i].out # "success"

C16_GenerationExhaustedScenario ==
    C16_Scenario =>
        /\ Returned
        /\ response.status = "failed"
        /\ response.metadata.failed_at_stage = "code_generation"
        /\ response.metadata.generation_attempts = 3
        /\ Len(calls) = MAX_GENERATION_RETRIES
        /\ CallsTo("validate") \cup CallsTo("verify") \cup CallsTo("review") = {}

C16_Witness ==
    /\ C16_Scenario
    /\ Returned
    /\ \E i, j \in DOMAIN calls : calls[i].out = "error" /\ calls[j].out = "raise"

(* C17: if generation, the validator and the verifier all accept on their   *)
(* first call, the response is success with generation_attempts = 1,        *)
(* syntax_fix_attempts = 1, hallucination_fix_attempts = 1 and              *)
(* error_messages is empty.                                                 *)
C17_Scenario ==
    /\ Returned
    /\ Len(calls) >= 3
    /\ SubSeq(Outcomes, 1, 3) = << <<"generate", "success">>,
                                   <<"validate", "SYNTAX_VALID">>,
                                   <<"verify", "VERIFIED">> >>

C17_FirstTryScenario ==
    C17_Scenario =>
        /\ response.status = "success"
        /\ response.metadata.generation_attempts = 1
        /\ response.metadata.syntax_fix_attempts = 1
        /\ response.metadata.hallucination_fix_attempts = 1
        /\ states[RequestId].error_messages = <<>>

C17_Witness == C17_Scenario /\ enable_code_review /\ Len(calls) = 4

(* C18: if syntax pass 1 reports an error with a non-empty corrected_code   *)
(* and pass 2 reports SYNTAX_VALID, the syntax stage succeeds with          *)
(* attempts["syntax_fix"] = 2, the candidate is the corrected variant, and  *)
(* no generation call was made during the syntax stage.                     *)
C18_Scenario ==
    /\ Len(calls) >= 2
    /\ calls[Len(calls)].to = "validate"
    /\ calls[Len(calls)].out = "SYNTAX_VALID"
    /\ calls[Len(calls) - 1].to = "validate"
    /\ calls[Len(calls) - 1].out \notin {"SYNTAX_VALID", "raise"}
    /\ calls[Len(calls) - 1].ret # None
    /\ Cardinality(CallsTo("validate")) = 2

C18_AutoCorrectScenario ==
    C18_Scenario =>
        /\ pc = "halluc"
        /\ states[RequestId].current_stage = "HALLUCINATION_CHECK"
        /\ states[RequestId].attempts.syntax_fix = 2
        /\ states[RequestId].artifacts.generated_code = calls[Len(calls) - 1].ret
        /\ calls[Len(calls)].arg = calls[Len(calls) - 1].ret
        /\ \A i \in CallsTo("generate") : i < Len(calls) - 1

C18_Witness == C18_Scenario /\ gen_calls = 1

(* C19: once a stage function has returned failure, no collaborator is      *)
(* called again for the request and the response is failed.                 *)
C19_FailureStopsPipeline ==
    /\ [](exhausted # "none" => Returned /\ response.status = "failed")
    /\ [][exhausted # "none" => calls' = calls]_vars

C19_Witness ==
    /\ Returned
    /\ exhausted = "CODE_GENERATION"
    /\ caller = "syntax"
    /\ states[RequestId].attempts.syntax_fix < MAX_SYNTAX_RETRIES

(* A bound on the collaborator calls still to come: the stages still to run, *)
(* then the passes left in the running stage, then the attempts left in the *)
(* running generation invocation.                                           *)
GenLeft == MAX_GENERATION_RETRIES + 1 - attempt.generation
CallsLeft ==
    CASE pc = "idle" -> 500
      [] pc = "gen" /\ caller = "main" -> 400 + GenLeft
      [] pc = "gen" /\ caller = "syntax" ->
             300 + 10 * (MAX_SYNTAX_RETRIES + 1 - attempt.syntax) + GenLeft
      [] pc = "syntax" -> 300 + 10 * (MAX_SYNTAX_RETRIES + 1 - attempt.syntax) + 5
      [] pc = "gen" /\ caller = "halluc" ->
             200 + 10 * (MAX_HALLUCINATION_RETRIES + 1 - attempt.hallucination) + GenLeft
      [] pc = "halluc" -> 200 + 10 * (MAX_HALLUCINATION_RETRIES + 1 - attempt.hallucination) + 5
      [] pc = "review" -> 100
      [] pc = "done" -> 0

(* C20: every generate_code call terminates: under any sequence of          *)
(* collaborator answers (auto-corrections on every pass included) the run   *)
(* reaches a returned success or failure response; every step lowers the    *)
(* bound on the calls still to come.                                        *)
C20_Terminates ==
    /\ <>(Returned /\ response.status \in {"success", "failed"})
    /\ [][CallsLeft' < CallsLeft /\ CallsLeft' >= 0]_vars

C20_Witness ==
    /\ Returned
    /\ Cardinality(CallsTo("validate")) = MAX_SYNTAX_RETRIES
    /\ \A i \in CallsTo("validate") : calls[i].ret # None

(* Requests whose generate_code call has returned *)
ReturnedIds == {id \in DOMAIN states : id < CurrentId \/ Returned}

(* C14: after generate_code has returned for a request id, all get_state    *)
(* calls for that id return equal snapshots; get_state leaves the stored    *)
(* states unchanged; and no step, a later generate_code for another request *)
(* included, changes the stored state of a returned request.                *)
C14_LookupIdempotent ==
    /\ [](\A a, b \in looked :
             /\ a.request_id = b.request_id
             /\ a.snapshot # NotFound
             /\ b.snapshot # NotFound
             => a.snapshot = b.snapshot)
    /\ [][/\ looked' # looked => states' = states
          /\ \A id \in ReturnedIds :
                /\ id \in DOMAIN states'
                /\ states'[id] = states[id]
                /\ GetState(id)' = GetState(id)]_vars

(* Request 1 is looked up after it returned and again after a second        *)
(* request ran to its end with different attempt counts                     *)
C14_Witness ==
    /\ \E a, b \in looked :
          /\ a.request_id = RequestId /\ a.requests = 1
          /\ b.request_id = RequestId /\ b.requests = 2
          /\ a.snapshot # NotFound
    /\ Returned
    /\ GetState(CurrentId).attempts # GetState(RequestId).attempts

----------------------------------------------------------------------------
(* A step in which the validator or the verifier rejects the candidate and  *)
(* supplies no corrected variant                                            *)
RejectStep ==
    /\ CallStep
    /\ NewCall.to \in {"validate", "verify"}
    /\ NewCall.out \notin {"SYNTAX_VALID", "VERIFIED", "raise"}
    /\ NewCall.ret = None

(* C21: MAX_TOTAL_RETRIES is not enforced: a rejection by the validator or  *)
(* the verifier re-invokes the generation stage with a fresh budget of      *)
(* MAX_GENERATION_RETRIES attempts however many generation calls the        *)
(* request has made, and a due generation attempt is always made; so a run  *)
(* with more than MAX_TOTAL_RETRIES generation calls exists (the witness).  *)
C21_TotalRetriesNotEnforced ==
    [][/\ RejectStep => /\ pc' = "gen"
                        /\ attempt'.generation = 1
                        /\ caller' = IF NewCall.to = "validate" THEN "syntax" ELSE "halluc"
       /\ (pc = "gen" /\ CallStep) => gen_calls' = gen_calls + 1]_vars

C21_Witness ==
    /\ gen_calls > MAX_TOTAL_RETRIES
    /\ Returned
    /\ \A i \in CallsTo("generate") : calls[i].out = "success"

(* Some call before call i went to collaborator `to` and answered `out` *)
AnsweredBefore(i, to, out) ==
    \E j \in DOMAIN calls : j < i /\ calls[j].to = to /\ calls[j].out = out

(* C22: collaborators are called in stage order: every validator call is    *)
(* preceded by a successful generation call and gets a non-null candidate;  *)
(* every verifier call is preceded by a validator call that answered         *)
(* SYNTAX_VALID; every review call by a verifier call that answered         *)
(* VERIFIED.  The log only grows, so every call is the latest call in the   *)
(* state that follows it, and it is enough to state this of the latest.     *)
C22_StageOrder ==
    /\ pc = "syntax" => states[RequestId].artifacts.generated_code # None
    /\ calls # <<>> =>
          LET i == Len(calls)
          IN  /\ calls[i].to = "validate" =>
                    calls[i].arg # None /\ AnsweredBefore(i, "generate", "success")
              /\ calls[i].to = "verify" => AnsweredBefore(i, "validate", "SYNTAX_VALID")
              /\ calls[i].to = "review" => AnsweredBefore(i, "verify", "VERIFIED")

C22_Witness ==
    /\ Returned
    /\ calls[Len(calls)].to = "review"
    /\ Cardinality(CallsTo("validate")) = 2
    /\ Cardinality(CallsTo("verify")) = 2

(* C23: the review service is called exactly once, with the final candidate *)
(* and the original request, when review is enabled and the first three     *)
(* stages succeeded, and never otherwise; while it has not been called,     *)
(* artifacts.review_result is null and a success response has no review     *)
(* entry.                                                                   *)
C23_ReviewOnceWhenEnabled ==
    LET reviewed == CallsTo("review")
        n == Cardinality(reviewed)
    IN  /\ n <= 1
        /\ (Returned /\ response.status = "success" /\ enable_code_review) =>
              /\ n = 1
              /\ \A i \in reviewed :
                    /\ calls[i].arg = response.code
                    /\ calls[i].requirements = states[RequestId].user_request
        /\ (~enable_code_review \/ (Returned /\ response.status = "failed")) => n = 0
        /\ (Started /\ n = 0) =>
              /\ states[RequestId].artifacts.review_result = NoResult
              /\ (Returned /\ response.status = "success") => ~response.has_review

C23_Witness ==
    /\ Returned
    /\ response.status = "success"
    /\ enable_code_review
    /\ response.has_review
    /\ LastCallTo("review").arg = CorrectedCode

(* A step that makes one generation call *)
GenStep == Started /\ CallStep /\ NewCall.to = "generate"

(* Calls i, i+1, i+2 are generation calls that all failed *)
ThreeFailedFrom(i) ==
    \A j \in i..(i + MAX_GENERATION_RETRIES - 1) :
        /\ j \in DOMAIN calls
        /\ calls[j].to = "generate"
        /\ calls[j].out # "success"

(* C24: one invocation of the generation stage makes at most                *)
(* MAX_GENERATION_RETRIES calls; a call that reports success stores its     *)
(* code and ends the invocation with no further call; every failed call     *)
(* (error status or fault) appends exactly one entry to error_messages and  *)
(* is followed by the next attempt, and the invocation returns failure only *)
(* after MAX_GENERATION_RETRIES failed calls.                               *)
C24_GenerationInvocation ==
    /\ [](pc = "gen" => attempt.generation \in 1..MAX_GENERATION_RETRIES)
    /\ [](\A i \in DOMAIN calls :
             ThreeFailedFrom(i) =>
                 /\ i + MAX_GENERATION_RETRIES - 1 = Len(calls)
                 /\ exhausted = "CODE_GENERATION")
    /\ [](exhausted = "CODE_GENERATION" =>
             ThreeFailedFrom(Len(calls) - MAX_GENERATION_RETRIES + 1))
    /\ [][GenStep =>
            IF NewCall.out = "success"
            THEN /\ states'[RequestId].artifacts.generated_code = NewCall.ret
                 /\ states'[RequestId].error_messages = states[RequestId].error_messages
                 /\ pc' # "gen"
                 /\ exhausted' # "CODE_GENERATION"
            ELSE /\ Len(states'[RequestId].error_messages) =
                        Len(states[RequestId].error_messages) + 1
                 /\ IsPrefix(states[RequestId].error_messages,
                             states'[RequestId].error_messages)
                 /\ IF attempt.generation < MAX_GENERATION_RETRIES
                    THEN /\ pc' = "gen" /\ caller' = caller
                         /\ attempt'.generation = attempt.generation + 1
                         /\ exhausted' = "none"
                    ELSE /\ exhausted' = "CODE_GENERATION"
                         /\ Returned' /\ response'.status = "failed"]_vars

C24_Witness ==
    /\ exhausted = "CODE_GENERATION"
    /\ caller = "halluc"
    /\ gen_calls = MAX_GENERATION_RETRIES + 1
    /\ faults = 1

(* C25: when a generation stage re-invoked by the syntax stage or by the    *)
(* reference stage fails its last attempt, generate_code returns failure in *)
(* that step, whatever passes the owning stage has left: the failed         *)
(* generation call is the last collaborator call of the request.            *)
C25_ReinvocationFailureIsFinal ==
    /\ [][(GenStep /\ NewCall.out # "success"
             /\ attempt.generation = MAX_GENERATION_RETRIES
             /\ caller \in {"syntax", "halluc"}) =>
            /\ Returned'
            /\ response'.status = "failed"
            /\ attempt'.syntax = attempt.syntax
            /\ attempt'.hallucination = attempt.hallucination]_vars
    /\ []((exhausted = "CODE_GENERATION" /\ caller \in {"syntax", "halluc"}) =>
            /\ Returned
            /\ calls[Len(calls)].to = "generate"
            /\ \A i \in CallsTo("validate") \cup CallsTo("verify") :
                  i <= Len(calls) - MAX_GENERATION_RETRIES)
    /\ [][Returned => calls' = calls]_vars

C25_Witness ==
    /\ exhausted = "CODE_GENERATION"
    /\ caller = "halluc"
    /\ attempt.hallucination = 1
    /\ Cardinality(CallsTo("verify")) = 1
    /\ Returned

(* Where the request stands after the collaborator `to`, called in the      *)
(* current state, answers with a non-success result (for the validator: a   *)
(* rejection without corrected_code)                                        *)
AfterRejection(to) ==
    CASE to = "generate" ->
             OnGenerateResult(CallGenerate(Cur), [status |-> "error", error |-> "bad output"])
      [] to = "validate" ->
             OnValidateResult(CallValidate(Cur),
                              [status |-> "SYNTAX_ERROR", errors |-> SyntaxErrorList,
                               corrected_code |-> None])
      [] to = "verify" ->
             OnVerifyResult(CallVerify(Cur),
                            [status |-> "HALLUCINATION_DETECTED",
                             hallucinations |-> HallucinationList])

(* C26: a fault raised by the generation service, the validator or the      *)
(* verifier appends exactly one entry to error_messages and leads to the    *)
(* same next action as a non-success result of that collaborator: the next  *)
(* generation attempt in the generation stage, a re-invocation of           *)
(* generation in the syntax and reference stages.                           *)
C26_FaultTreatedAsRejection ==
    [][(Started /\ CallStep /\ NewCall.out = "raise"
          /\ NewCall.to \in {"generate", "validate", "verify"}) =>
          /\ Len(states'[RequestId].error_messages) =
                 Len(states[RequestId].error_messages) + 1
          /\ pc' = AfterRejection(NewCall.to).pc
          /\ caller' = AfterRejection(NewCall.to).caller
          /\ attempt' = AfterRejection(NewCall.to).attempt]_vars

(* Position of a stage in the pipeline order *)
StageRank(stage) ==
    CASE stage = "INITIALIZED" -> 0
      [] stage = "CODE_GENERATION" -> 1
      [] stage = "SYNTAX_CHECK" -> 2
      [] stage = "HALLUCINATION_CHECK" -> 3
      [] stage = "CODE_REVIEW" -> 4
      [] stage \in {"COMPLETED", "FAILED"} -> 5

(* C27: current_stage is the position of the pipeline: SYNTAX_CHECK at      *)
(* every validator call, HALLUCINATION_CHECK at every verifier call,        *)
(* CODE_GENERATION at every generation call; and apart from the feedback    *)
(* loops into generation it only advances in the pipeline order.            *)
C27_StageIsPosition ==
    /\ [](\A i \in DOMAIN calls :
             /\ calls[i].to = "generate" => calls[i].stage = "CODE_GENERATION"
             /\ calls[i].to = "validate" => calls[i].stage = "SYNTAX_CHECK"
             /\ calls[i].to = "verify" => calls[i].stage = "HALLUCINATION_CHECK")
    /\ [][(Started /\ states'[RequestId].current_stage # "CODE_GENERATION") =>
             StageRank(states'[RequestId].current_stage) >=
                 StageRank(states[RequestId].current_stage)]_vars

(* The request is in the reference stage: in a verifier pass or in a        *)
(* generation stage that the reference stage re-invoked                     *)
InReferenceStage == pc = "halluc" \/ (pc = "gen" /\ caller = "halluc")

(* C28: in the reference stage every verifier result other than VERIFIED    *)
(* appends exactly one entry, the formatted brief of that result, to        *)
(* error_messages and re-invokes the generation stage; and in this stage    *)
(* artifacts.generated_code changes only to the code returned by a          *)
(* successful generation call.                                              *)
C28_ReferenceRejection ==
    [][/\ (Started /\ CallStep /\ NewCall.to = "verify"
             /\ NewCall.out \notin {"VERIFIED", "raise"}) =>
            /\ states'[RequestId].artifacts.hallucination_result.status = NewCall.out
            /\ states'[RequestId].error_messages =
                   Append(states[RequestId].error_messages,
                          FormatHallucinationErrors(
                              states'[RequestId].artifacts.hallucination_result))
            /\ pc' = "gen" /\ caller' = "halluc" /\ attempt'.generation = 1
       /\ (InReferenceStage /\ states'[RequestId].artifacts.generated_code #
                                   states[RequestId].artifacts.generated_code) =>
            /\ CallStep
            /\ NewCall.to = "generate" /\ NewCall.out = "success"
            /\ states'[RequestId].artifacts.generated_code = NewCall.ret]_vars

C28_Witness ==
    /\ Returned
    /\ response.status = "success"
    /\ \E i, j \in CallsTo("verify") :
          /\ calls[i].out = "HALLUCINATION_DETECTED"
          /\ calls[j].out = "VERIFICATION_FAILED"
    /\ Len(states[RequestId].error_messages) = 2
    /\ states[RequestId].artifacts.generated_code = 2

(* The calls `made` to one collaborator are max in number and none of them  *)
(* answered `accept`                                                        *)
PassesUsedUp(made, max, accept) ==
    Cardinality(made) = max /\ \A i \in made : calls[i].out # accept

(* C29: per request the validator is called at most MAX_SYNTAX_RETRIES      *)
(* times and the verifier at most MAX_HALLUCINATION_RETRIES times; once a   *)
(* stage has used all its passes without an accepting verdict, no later     *)
(* stage runs and the request returns failure (at once, or after the        *)
(* generation stage its last pass re-invoked).                              *)
C29_PassesBounded ==
    LET validated == CallsTo("validate")
        verified == CallsTo("verify")
    IN  /\ Cardinality(validated) <= MAX_SYNTAX_RETRIES
        /\ Cardinality(verified) <= MAX_HALLUCINATION_RETRIES
        /\ PassesUsedUp(validated, MAX_SYNTAX_RETRIES, "SYNTAX_VALID") =>
              /\ pc \in {"gen", "done"}
              /\ pc = "gen" => caller = "syntax"
              /\ Returned => response.status = "failed"
              /\ verified = {}
        /\ PassesUsedUp(verified, MAX_HALLUCINATION_RETRIES, "VERIFIED") =>
              /\ pc \in {"gen", "done"}
              /\ pc = "gen" => caller = "halluc"
              /\ Returned => response.status = "failed"
              /\ CallsTo("review") = {}

C29_Witness ==
    /\ Returned
    /\ PassesUsedUp(CallsTo("verify"), MAX_HALLUCINATION_RETRIES, "VERIFIED")
    /\ calls[Len(calls)].to = "generate"
    /\ calls[Len(calls)].out = "success"
    /\ exhausted = "HALLUCINATION_CHECK"

(* C30: artifacts.generated_code changes only in a successful generation    *)
(* call, to the returned code, or in a validator call that supplies a       *)
(* non-empty corrected_code, to that code; a failed generation attempt, a   *)
(* raised fault, a verdict without correction and the review call leave it  *)
(* unchanged.                                                               *)
C30_CandidateFrame ==
    [][Started =>
        LET old == states[RequestId].artifacts.generated_code
            new == states'[RequestId].artifacts.generated_code
        IN  /\ new # old =>
                  /\ CallStep
                  /\ \/ NewCall.to = "generate" /\ NewCall.out = "success"
                     \/ AdoptStep
                  /\ new = NewCall.ret
            /\ (CallStep /\ NewCall.to = "generate" /\ NewCall.out = "success") =>
                  new = NewCall.ret
            /\ AdoptStep => new = NewCall.ret
            /\ (CallStep /\ \/ NewCall.out = "raise"
                            \/ NewCall.to \in {"verify", "review"}
                            \/ NewCall.to = "generate" /\ NewCall.out # "success"
                            \/ NewCall.to = "validate" /\ NewCall.ret = None) =>
                  new = old]_vars

C30_Witness ==
    /\ Returned
    /\ response.status = "success"
    /\ response.code = CorrectedCode
    /\ calls[Len(calls)].to = "review"
    /\ \E i \in CallsTo("generate") : i > 1 /\ calls[i].out = "error" /\ calls[i].arg # None
    /\ \E i \in CallsTo("verify") : calls[i].out = "raise"

----------------------------------------------------------------------------
(* A call whose failure the stage functions append to error_messages: an    *)
(* error or fault of the generation service (lines 198, 203), a validator   *)
(* rejection without correction or fault (246, 253), a verifier rejection   *)
(* or fault (290, 297)                                                      *)
LoggedFailure(call) ==
    \/ call.out = "raise" /\ call.to # "review"
    \/ call.to = "generate" /\ call.out # "success"
    \/ call.to = "validate" /\ call.out # "SYNTAX_VALID" /\ call.ret = None
    \/ call.to = "verify" /\ call.out # "VERIFIED"

(* The retry fields of the latest generate request *)
RetryFields == {"feedback", "previous_attempt"} \cap DOMAIN last_request.data

(* C31: feedback and previous_attempt are sent on retries only: the first   *)
(* generation call of a request carries neither, and a generation call that *)
(* carries one carries both, is not the first call, and comes after a       *)
(* failure that error_messages records (the feedback is an entry of it).    *)
C31_RetryFieldsOnRetriesOnly ==
    /\ gen_calls = 1 => RetryFields = {}
    /\ RetryFields # {} =>
          LET g == CHOOSE i \in CallsTo("generate") : \A j \in CallsTo("generate") : j <= i
              log == states[RequestId].error_messages
          IN  /\ RetryFields = {"feedback", "previous_attempt"}
              /\ \E j \in 1..(g - 1) : LoggedFailure(calls[j])
              /\ \E n \in DOMAIN log : log[n] = last_request.data.feedback

C31_Witness ==
    /\ RetryFields # {}
    /\ last_request.caller = "halluc"
    /\ last_request.data.previous_attempt # None

(* The candidate stored last: the code text of the latest call that         *)
(* returned one (a successful generation, line 193, or a validator          *)
(* correction, line 241); None when no call returned one                    *)
LastStored ==
    LET stored == {i \in DOMAIN calls : calls[i].ret # None}
    IN  IF stored = {} THEN None
        ELSE calls[CHOOSE i \in stored : \A j \in stored : j <= i].ret

(* C32: a failure response carries the last stored candidate as             *)
(* last_attempt, which is None exactly when no generation call of the       *)
(* request succeeded; its attempt counts are the counters of the state and  *)
(* total_attempts is their sum.                                             *)
C32_FailureResponseContent ==
    (Returned /\ response.status = "failed") =>
        LET st == states[RequestId]
            m == response.metadata
        IN  /\ response.last_attempt = st.artifacts.generated_code
            /\ response.last_attempt = LastStored
            /\ response.last_attempt = None <=>
                   ~\E i \in CallsTo("generate") : calls[i].out = "success"
            /\ m.generation_attempts = st.attempts.generation
            /\ m.syntax_fix_attempts = st.attempts.syntax_fix
            /\ m.hallucination_fix_attempts = st.attempts.hallucination_fix
            /\ m.total_attempts = m.generation_attempts + m.syntax_fix_attempts
                                      + m.hallucination_fix_attempts

C32_Witness ==
    /\ Returned
    /\ response.status = "failed"
    /\ response.last_attempt = CorrectedCode
    /\ response.metadata.total_attempts >= 4

(* C33: every candidate adopted during the syntax stage, by regeneration or *)
(* by auto-correction, is submitted to the validator before the stage       *)
(* returns: when the stage fails by using up its passes, every call that    *)
(* returned a candidate is followed by a validator call.                    *)
C33_AdoptedCandidateValidated ==
    (Returned /\ exhausted = "SYNTAX_CHECK") =>
        \A i \in DOMAIN calls :
            calls[i].ret # None =>
                \E j \in CallsTo("validate") : j > i

(* C34: one generate_code call makes at most 3 + 3*3 + 3*3 = 21 generation  *)
(* calls (the first stage, then one fresh invocation per syntax pass and    *)
(* per reference pass), and the total_attempts it reports is at most 9.     *)
C34_GenerationCallsBounded ==
    /\ gen_calls <= MAX_GENERATION_RETRIES
                      + MAX_SYNTAX_RETRIES * MAX_GENERATION_RETRIES
                      + MAX_HALLUCINATION_RETRIES * MAX_GENERATION_RETRIES
    /\ Returned =>
          response.metadata.total_attempts <=
              MAX_GENERATION_RETRIES + MAX_SYNTAX_RETRIES + MAX_HALLUCINATION_RETRIES

C34_Witness ==
    /\ Returned
    /\ response.metadata.total_attempts =
           MAX_GENERATION_RETRIES + MAX_SYNTAX_RETRIES + MAX_HALLUCINATION_RETRIES
    /\ gen_calls = MAX_GENERATION_RETRIES
                      * (1 + (MAX_SYNTAX_RETRIES - 1) + MAX_HALLUCINATION_RETRIES)

(* A step that enters generate_code *)
SubmitStep == pc \in {"idle", "done"} /\ pc' = "gen"

(* C35: each generate_code call adds exactly one entry to the states map,   *)
(* under a fresh request_id, and leaves every other entry unchanged; no     *)
(* step removes an entry or changes the request_id, user_request or         *)
(* created_at of one; get_state of an id never created returns not-found    *)
(* and changes nothing.                                                     *)
C35_StatesMapFrame ==
    /\ [](\A a \in looked : a.request_id > a.requests => a.snapshot = NotFound)
    /\ [][/\ SubmitStep =>
                /\ Cardinality(DOMAIN states') = Cardinality(DOMAIN states) + 1
                /\ \E id \in DOMAIN states' \ DOMAIN states : states'[id].request_id = id
          /\ ~SubmitStep => DOMAIN states' = DOMAIN states
          /\ \A id \in DOMAIN states :
                /\ id \in DOMAIN states'
                /\ states'[id].request_id = id
                /\ states'[id].user_request = states[id].user_request
                /\ states'[id].created_at = states[id].created_at
                /\ (SubmitStep \/ id # CurrentId) => states'[id] = states[id]
          /\ looked' # looked =>
                UNCHANGED <<enable_code_review, states, pc, caller, attempt, response,
                            calls, last_request, reinvoked, exhausted, failures,
                            codes_seen>>]_vars

(* Two requests are stored, the second one has worked, and an id that was   *)
(* not created at the time was looked up                                    *)
C35_Witness ==
    /\ Cardinality(DOMAIN states) = 2
    /\ Returned
    /\ states[RequestId].created_at # states[CurrentId].created_at
    /\ \E a \in looked : a.request_id > a.requests /\ a.snapshot = NotFound

(* The items of a brief written one after the other, first to n-th *)
RECURSIVE Joined(_, _)
Joined(items, n) == IF n = 0 THEN "" ELSE Joined(items, n - 1) \o items[n]

(* The brief made of a header and the items, in order *)
JoinedBrief(header, items) == header \o Joined(items, Len(items))

(* C36: the feedback formatters are pure functions of the verification      *)
(* result: the brief is the header followed by exactly one numbered item    *)
(* per issue of the input, in input order (the header alone when the        *)
(* result has no issues), whatever the request state; a formatter call      *)
(* changes nothing of the request state.                                    *)
C36_FormattingIsPure ==
    /\ [](/\ applied.fn = "_format_syntax_errors" =>
                LET errors == Get(applied.arg, "errors", <<>>)
                IN  applied.ret =
                        JoinedBrief("Syntax Errors Found:\n",
                                    [k \in 1..Len(errors) |-> SyntaxItem(k, errors[k])])
          /\ applied.fn = "_format_hallucination_errors" =>
                LET hs == Get(applied.arg, "hallucinations", <<>>)
                IN  applied.ret =
                        JoinedBrief("Hallucinations Detected:\n",
                                    [k \in 1..Len(hs) |-> HallucinationItem(k, hs[k])]))
    /\ [][applied' # applied =>
             UNCHANGED <<enable_code_review, states, pc, caller, attempt, response,
                         calls, last_request, reinvoked, exhausted, failures,
                         codes_seen, looked>>]_vars

(* A list of two different issues was formatted while a request was in      *)
(* the reference stage                                                      *)
C36_Witness ==
    /\ applied.fn = "_format_syntax_errors"
    /\ "errors" \in DOMAIN applied.arg
    /\ Len(applied.arg.errors) = 2
    /\ applied.arg.errors[1] # applied.arg.errors[2]
    /\ pc = "halluc"

(* A module resolves: standard-library set, known third-party set, or       *)
(* importable                                                               *)
Resolves(module_name) ==
    \/ module_name \in STDLIB_MODULES
    \/ module_name \in KNOWN_THIRD_PARTY
    \/ ImportModule(module_name) = "returns"

(* C37: on non-blank parseable code verify returns VERIFIED exactly when    *)
(* every imported module resolves, and otherwise HALLUCINATION_DETECTED     *)
(* with exactly one hallucination entry per import entry whose module does  *)
(* not resolve; blank or unparseable code gives VERIFICATION_FAILED with an *)
(* empty hallucination list.                                                *)
C37_VerifyVerdict ==
    applied.fn = "verify" =>
        LET code == applied.arg
            result == applied.ret
        IN  IF code.kind = "parsed"
            THEN LET unresolved == {i \in DOMAIN code.imports : ~Resolves(code.imports[i])}
                 IN  /\ result.status = "VERIFIED" <=> unresolved = {}
                     /\ unresolved # {} =>
                           /\ result.status = "HALLUCINATION_DETECTED"
                           /\ Len(result.hallucinations) = Cardinality(unresolved)
                           /\ \A n \in DOMAIN result.hallucinations :
                                 ~Resolves(result.hallucinations[n].referenced)
            ELSE /\ result.status = "VERIFICATION_FAILED"
                 /\ result.hallucinations = <<>>

(* C38: validate returns SYNTAX_VALID for every non-blank code that parses, *)
(* SYNTAX_ERROR with at least one error entry for every non-blank code      *)
(* whose parse raises a syntax error, and PARSE_FAILED for empty or         *)
(* whitespace-only code.                                                    *)
C38_ValidateVerdict ==
    applied.fn = "validate" =>
        /\ applied.arg.kind = "valid" => applied.ret.status = "SYNTAX_VALID"
        /\ applied.arg.kind = "syntax_error" =>
              /\ applied.ret.status = "SYNTAX_ERROR"
              /\ Len(applied.ret.errors) >= 1
        /\ applied.arg.kind = "blank" => applied.ret.status = "PARSE_FAILED"

C38_Witness ==
    /\ applied.fn = "validate"
    /\ applied.arg.kind = "syntax_error"
    /\ applied.ret.status = "SYNTAX_ERROR"
    /\ applied.ret.corrected_code = NoText

(* C39: a corrected_code that validate returns parses, so validating it     *)
(* returns SYNTAX_VALID: a call on the corrected_code of the previous call  *)
(* never rejects and never corrects again.                                  *)
C39_CorrectedCodeIsValid ==
    /\ [](applied.fn = "validate" /\ CorrectedText(applied.ret) # NoText =>
             CorrectedText(applied.ret).kind = "valid")
    /\ [][(applied'.fn = "validate" /\ applied'.revalidated) =>
             /\ applied'.ret.status = "SYNTAX_VALID"
             /\ CorrectedText(applied'.ret) = NoText]_vars

C39_Witness ==
    /\ applied.fn = "validate"
    /\ applied.revalidated
    /\ applied.ret.status = "SYNTAX_VALID"

====
